---- MODULE Spec2Model ----
(***************************************************************************)
(* Model of the looptrace-napari readers:                                  *)
(*   looptrace_napari/locus_specific_points_reader.py                      *)
(*   looptrace_napari/nuclei_reader.py                                     *)
(*   looptrace_napari/geometry.py, looptrace_napari/types.py               *)
(*   looptrace_locus_points_napari/reader.py (earlier tuple-based reader)  *)
(*                                                                         *)
(* Representation.                                                         *)
(*   text    : a sequence of one-character strings, <<"2", ".", "7">>      *)
(*   number  : [t |-> "int", v |-> n]    the Python int n                  *)
(*             [t |-> "float", v |-> n]  the Python float n / 10           *)
(*             [t |-> "str", v |-> 0]    a value that is not a number      *)
(*   outcome : [kind |-> "return", value |-> ...] or                       *)
(*             [kind |-> "raise", exc |-> <exception class>, why |-> ...]  *)
(* Every call is one step from the idle state to a state that records the  *)
(* call, its arguments and its outcome; Return hands control back.         *)
(***************************************************************************)
EXTENDS Integers, Sequences, FiniteSets, TLC

VARIABLES pc, op, args, result

vars == <<pc, op, args, result>>

(***************************************************************************)
(* Bounds                                                                  *)
(***************************************************************************)
\* longest row handed to the record parsers
MaxRowLen == 6
\* largest whole z slice drawn for a record or for z_max
MaxZ == 3
\* most rows in a file handed to parse_passed or parse_failed
MaxRows == 2
\* most axes of an array handed to NucleiVisualisationData
MaxDims == 6
\* most names os.listdir gives for one subfolder of nuclei data
MaxFiles == 2

(***************************************************************************)
(* Outcomes                                                                *)
(***************************************************************************)
Return_(v) == [kind |-> "return", value |-> v]

Raise(exc, why) == [kind |-> "raise", exc |-> exc, why |-> why]

IsReturn(o) == o.kind = "return"

IsRaise(o) == o.kind = "raise"

Raises(o, exc, why) == o.kind = "raise" /\ o.exc = exc /\ o.why = why

\* an assignment: e is evaluated once and F applied to its value
Bind(e, F(_)) == CHOOSE y \in { F(x) : x \in {e} } : TRUE

(***************************************************************************)
(* Numbers                                                                 *)
(***************************************************************************)
PyIntVal(n) == [t |-> "int", v |-> n]

PyFloatVal(tenths) == [t |-> "float", v |-> tenths]

NotANumber == [t |-> "str", v |-> 0]

\* value of a number in tenths, the common scale of int and float
Tenths(n) == IF n.t = "int" THEN n.v * 10 ELSE n.v

\* Python's == between numbers of either type ( 2 == 2.0 )
NumEq(a, b) == Tenths(a) = Tenths(b)

NumLt(a, b) == Tenths(a) < Tenths(b)

\* math.floor: the greatest integer not above the number, as an int
floor(n) == IF n.t = "int" THEN n.v ELSE n.v \div 10

\* isinstance(n, (int, float, np.float64))
IsNumeric(n) == n.t \in {"int", "float"}

(***************************************************************************)
(* Text to number conversion: int(text) and float(text)                    *)
(***************************************************************************)
Digits == {"0", "1", "2", "3", "4", "5", "6", "7", "8", "9"}

DigitVal(c) ==
    CASE c = "0" -> 0 [] c = "1" -> 1 [] c = "2" -> 2 [] c = "3" -> 3
      [] c = "4" -> 4 [] c = "5" -> 5 [] c = "6" -> 6 [] c = "7" -> 7
      [] c = "8" -> 8 [] c = "9" -> 9

AllDigits(s) == \A i \in 1..Len(s) : s[i] \in Digits

RECURSIVE DecimalVal(_)
DecimalVal(s) ==
    IF s = <<>> THEN 0
    ELSE DecimalVal(SubSeq(s, 1, Len(s) - 1)) * 10 + DigitVal(s[Len(s)])

\* the text without a leading sign
Unsigned(s) == IF s # <<>> /\ s[1] \in {"-", "+"} THEN Tail(s) ELSE s

SignOf(s) == IF s # <<>> /\ s[1] = "-" THEN -1 ELSE 1

\* int() accepts an optional sign followed by one or more digits
IsIntText(s) == Unsigned(s) # <<>> /\ AllDigits(Unsigned(s))

\* int(text): the value, or ValueError for text that is not an integer
PyInt(s) ==
    IF IsIntText(s) THEN Return_(PyIntVal(SignOf(s) * DecimalVal(Unsigned(s))))
    ELSE Raise("ValueError", "int")

\* position of the decimal point in s, 0 when there is none
DotPos(s) ==
    IF \E i \in 1..Len(s) : s[i] = "."
    THEN CHOOSE i \in 1..Len(s) : s[i] = "." /\ \A j \in 1..(i - 1) : s[j] # "."
    ELSE 0

WholePart(s) == IF DotPos(s) = 0 THEN s ELSE SubSeq(s, 1, DotPos(s) - 1)

FracPart(s) == IF DotPos(s) = 0 THEN <<>> ELSE SubSeq(s, DotPos(s) + 1, Len(s))

\* float() accepts an optional sign, digits, and at most one decimal point
\* with at least one digit on either side of it; texts are drawn with at
\* most one fractional digit, so the value is exact in tenths
IsFloatText(s) ==
    LET u == Unsigned(s) IN
        /\ AllDigits(WholePart(u))
        /\ AllDigits(FracPart(u))
        /\ Len(WholePart(u)) + Len(FracPart(u)) >= 1
        /\ Len(FracPart(u)) <= 1

PyFloat(s) ==
    IF IsFloatText(s)
    THEN LET u == Unsigned(s) IN
         Return_(PyFloatVal(SignOf(s) *
             (DecimalVal(WholePart(u)) * 10 + DecimalVal(FracPart(u)))))
    ELSE Raise("ValueError", "float")

(***************************************************************************)
(* types.py: TraceIdFrom0, TimepointFrom0                                  *)
(***************************************************************************)
TraceIdFrom0(n) ==
    IF n.t # "int" THEN Raise("TypeError", "trace ID")
    ELSE IF n.v < 0 THEN Raise("ValueError", "trace ID negative")
    ELSE Return_([get |-> n])

TimepointFrom0(n) ==
    IF n.t # "int" THEN Raise("TypeError", "timepoint")
    ELSE IF n.v < 0 THEN Raise("ValueError", "timepoint negative")
    ELSE Return_([get |-> n])

(***************************************************************************)
(* geometry.py: ImagePoint2D, ImagePoint3D                                 *)
(***************************************************************************)
\* ImagePoint2D.__post_init__: both coordinates float, neither negative
ImagePoint2D_post_init(x, y) ==
    IF ~ (x.t = "float" /\ y.t = "float") THEN Raise("TypeError", "not float")
    ELSE IF x.v < 0 \/ y.v < 0 THEN Raise("ValueError", "negative coordinate")
    ELSE Return_("None")

\* the coordinates ImagePoint3D.__post_init__ tests for negativity after the
\* type test of z: the list [self.x, self.y]
ImagePoint3D_checked(z, y, x) == {x, y}

\* ImagePoint3D(z=z, y=y, x=x): the dataclass constructor with __post_init__
ImagePoint3D(z, y, x) ==
    LET base == ImagePoint2D_post_init(x, y) IN
    IF IsRaise(base) THEN base
    ELSE IF ~ IsNumeric(z) THEN Raise("TypeError", "bad z")
    ELSE IF \E c \in ImagePoint3D_checked(z, y, x) : Tenths(c) < 0
         THEN Raise("ValueError", "z-coordinate is negative")
    ELSE Return_([z |-> z, y |-> y, x |-> x])

(***************************************************************************)
(* locus_specific_points_reader.py: InputFileColumn, PointRecord           *)
(***************************************************************************)
\* the columns with Y and X exchanged
InputFileColumn_YXSwapped ==
    [TRACE |-> 1, TIMEPOINT |-> 2, Z |-> 3, Y |-> 5, X |-> 4, QC |-> 6]

\* InputFileColumn.<member>.get, shifted by one: Python indexes rows from 0
InputFileColumn ==
    [TRACE |-> 1, TIMEPOINT |-> 2, Z |-> 3, Y |-> 4, X |-> 5, QC |-> 6]

\* PointRecord(trace_id=..., timepoint=..., point=...); the arguments are
\* already a TraceId, a Timepoint and an ImagePoint3D, so __post_init__ passes
PointRecord(trace, timepoint, point) ==
    [trace_id |-> trace, timepoint |-> timepoint, point |-> point]

get_z_coordinate(r) == r.point.z

get_y_coordinate(r) == r.point.y

get_x_coordinate(r) == r.point.x

\* PointRecord.flatten
flatten(r) ==
    << r.trace_id.get, r.timepoint.get,
       get_z_coordinate(r), get_y_coordinate(r), get_x_coordinate(r) >>

\* with_new_z with the y and x arguments of the new point exchanged
with_new_z_swapped(r, z) ==
    LET pt == ImagePoint3D(z, r.point.x, r.point.y) IN
    IF IsRaise(pt) THEN pt
    ELSE Return_([r EXCEPT !.point = pt.value])

\* PointRecord.with_new_z: a copy whose point has the given z
with_new_z(r, z) ==
    LET pt == ImagePoint3D(z, r.point.y, r.point.x) IN
    IF IsRaise(pt) THEN pt
    ELSE Return_([r EXCEPT !.point = pt.value])

\* PointRecord.with_truncated_z
with_truncated_z(r) == with_new_z(r, PyIntVal(floor(get_z_coordinate(r))))

(***************************************************************************)
(* locus_specific_points_reader.py: parse_simple_record                    *)
(***************************************************************************)
\* the length test refusing only rows that are too short
length_mismatch_short_only(r, exp_num_fields) == Len(r) < exp_num_fields

\* len(r) != exp_num_fields
length_mismatch(r, exp_num_fields) == Len(r) # exp_num_fields

\* rows are lists, as csv.reader yields them, so the isinstance test passes
parse_simple_record(r, exp_num_fields) ==
    IF length_mismatch(r, exp_num_fields) THEN Raise("ValueError", "length")
    ELSE
    LET trace_int == PyInt(r[InputFileColumn.TRACE]) IN
    IF IsRaise(trace_int) THEN trace_int ELSE
    LET trace == TraceIdFrom0(trace_int.value) IN
    IF IsRaise(trace) THEN trace ELSE
    LET timepoint_int == PyInt(r[InputFileColumn.TIMEPOINT]) IN
    IF IsRaise(timepoint_int) THEN timepoint_int ELSE
    LET timepoint == TimepointFrom0(timepoint_int.value) IN
    IF IsRaise(timepoint) THEN timepoint ELSE
    LET z == PyFloat(r[InputFileColumn.Z]) IN
    IF IsRaise(z) THEN z ELSE
    LET y == PyFloat(r[InputFileColumn.Y]) IN
    IF IsRaise(y) THEN y ELSE
    LET x == PyFloat(r[InputFileColumn.X]) IN
    IF IsRaise(x) THEN x ELSE
    LET point == ImagePoint3D(z.value, y.value, x.value) IN
    IF IsRaise(point) THEN point
    ELSE Return_(PointRecord(trace.value, timepoint.value, point.value))

(***************************************************************************)
(* looptrace_locus_points_napari/reader.py: parse_simple_record            *)
(***************************************************************************)
\* the earlier reader's record parser: plain ints and floats in tuples
reader_parse_simple_record(r, exp_len) ==
    IF Len(r) # exp_len THEN Raise("ValueError", "length")
    ELSE
    LET trace == PyInt(r[1]) IN
    IF IsRaise(trace) THEN trace ELSE
    LET timepoint == PyInt(r[2]) IN
    IF IsRaise(timepoint) THEN timepoint ELSE
    LET z == PyFloat(r[3]) IN
    IF IsRaise(z) THEN z ELSE
    LET y == PyFloat(r[4]) IN
    IF IsRaise(y) THEN y ELSE
    LET x == PyFloat(r[5]) IN
    IF IsRaise(x) THEN x
    ELSE Return_(<< <<trace.value, timepoint.value>>, <<z.value, y.value, x.value>> >>)

(***************************************************************************)
(* locus_specific_points_reader.py: expand_along_z                         *)
(***************************************************************************)
\* list(range(a, b)): a, a + 1, ..., b - 1
range(a, b) == IF b > a THEN [k \in 1..(b - a) |-> a + k - 1] ELSE <<>>

\* [(r.with_new_z(i), False) for i in zs]: the outcomes of the copies
ZCopies(r, zs) == [k \in 1..Len(zs) |-> with_new_z(r, PyIntVal(zs[k]))]

\* whether some outcome of the sequence is an exception
AnyRaise(outcomes) == \E k \in 1..Len(outcomes) : IsRaise(outcomes[k])

\* the exception of the first outcome that is one
FirstRaise(outcomes) ==
    outcomes[CHOOSE k \in 1..Len(outcomes) :
                /\ IsRaise(outcomes[k])
                /\ \A j \in 1..(k - 1) : ~ IsRaise(outcomes[j])]

\* predecessors = [(r.with_new_z(i), False) for i in range(z_center)]
predecessors(r, z_center) == ZCopies(r, range(0, z_center))

\* successors = [(r.with_new_z(i), False) for i in range(z_center + 1, z_max + 1)]
successors(r, z_center, z_max) == ZCopies(r, range(z_center + 1, z_max + 1))

\* the range check with <= in place of <
z_max_below_center_inclusive(z_max, z_center) == z_max <= z_center

\* the range check left out
z_max_below_center_never(z_max, z_center) == FALSE

\* the check that max z and center z make sense together
z_max_below_center(z_max, z_center) == z_max < z_center

\* the flags with the center flag put first
center_flags_of_first(n_pred, n_succ) ==
    <<TRUE>> \o [k \in 1..n_pred |-> FALSE] \o [k \in 1..n_succ |-> FALSE]

\* the flags zipped out of predecessors + [(r, True)] + successors
center_flags_of(n_pred, n_succ) ==
    [k \in 1..n_pred |-> FALSE] \o <<TRUE>> \o [k \in 1..n_succ |-> FALSE]

\* lines 269-278, for the truncated record r and the integers z_center, z_max
expand_built(r, z_center, z_max) ==
    Bind(predecessors(r, z_center), LAMBDA pred :
    Bind(successors(r, z_center, z_max), LAMBDA succ :
        IF AnyRaise(pred) THEN FirstRaise(pred)
        ELSE IF AnyRaise(succ) THEN FirstRaise(succ)
        ELSE IF Len(pred) + 1 + Len(succ) # 1 + z_max
             THEN Raise("AssertionError", "len(points)")
        ELSE Return_([points |-> [k \in 1..Len(pred) |-> pred[k].value] \o <<r>>
                                    \o [k \in 1..Len(succ) |-> succ[k].value],
                      flags |-> center_flags_of(Len(pred), Len(succ))])))

expand_along_z(r0, z_max0) ==
    IF ~ IsNumeric(z_max0) THEN Raise("TypeError", "z_max")
    ELSE Bind(with_truncated_z(r0), LAMBDA truncated :
        IF IsRaise(truncated) THEN truncated
        ELSE IF z_max_below_center(floor(z_max0), floor(get_z_coordinate(truncated.value)))
             THEN Raise("ValueError", "z range")
        ELSE expand_built(truncated.value, floor(get_z_coordinate(truncated.value)),
                          floor(z_max0)))

(***************************************************************************)
(* locus_specific_points_reader.py: parse_passed, parse_failed             *)
(***************************************************************************)
RECURSIVE Concat(_)
\* list.extend over a sequence of lists
Concat(seqs) == IF seqs = <<>> THEN <<>> ELSE Head(seqs) \o Concat(Tail(seqs))

\* min in place of max: the first of the least
PyMax_least(zs) ==
    IF zs = <<>> THEN Raise("ValueError", "max() of empty")
    ELSE Return_(zs[CHOOSE i \in 1..Len(zs) :
                        /\ \A j \in 1..Len(zs) : ~ NumLt(zs[j], zs[i])
                        /\ \A j \in 1..(i - 1) : NumLt(zs[i], zs[j])])

\* max(...) over z coordinates: ValueError on an empty sequence, else the
\* first of the greatest
PyMax(zs) ==
    IF zs = <<>> THEN Raise("ValueError", "max() of empty")
    ELSE Return_(zs[CHOOSE i \in 1..Len(zs) :
                        /\ \A j \in 1..Len(zs) : ~ NumLt(zs[i], zs[j])
                        /\ \A j \in 1..(i - 1) : NumLt(zs[j], zs[i])])

\* the sizes with one size for every point
sizes_of_uniform(center_flags) == [k \in 1..Len(center_flags) |-> PyFloatVal(10)]

\* sizes = [1.5 if is_center else 1.0 for is_center in center_flags]
sizes_of(center_flags) ==
    [k \in 1..Len(center_flags) |->
        IF center_flags[k] THEN PyFloatVal(15) ELSE PyFloatVal(10)]

\* lines 111-118, for the parsed records and their greatest z
passed_expanded(records, max_z) ==
    Bind([k \in 1..Len(records) |-> expand_along_z(records[k], max_z)], LAMBDA expanded :
        IF AnyRaise(expanded) THEN FirstRaise(expanded)
        ELSE Bind(Concat([k \in 1..Len(expanded) |-> expanded[k].value.flags]),
                  LAMBDA center_flags :
            Return_([points |-> Concat([k \in 1..Len(expanded) |-> expanded[k].value.points]),
                     center_flags |-> center_flags,
                     params |-> [size |-> sizes_of(center_flags)]])))

\* the record parser over the rows that parse, the others skipped
passed_records_skipping(rows) ==
    LET good == SelectSeq(rows, LAMBDA r : IsReturn(parse_simple_record(r, 5))) IN
    [k \in 1..Len(good) |-> parse_simple_record(good[k], 5)]

\* records = [parse_simple_record(r, exp_num_fields=5) for r in rows], as the
\* outcomes of the calls
passed_records(rows) == [k \in 1..Len(rows) |-> parse_simple_record(rows[k], 5)]

parse_passed(rows) ==
    Bind(passed_records(rows), LAMBDA parsed :
        IF AnyRaise(parsed) THEN FirstRaise(parsed)
        ELSE Bind(PyMax([k \in 1..Len(parsed) |-> get_z_coordinate(parsed[k].value)]),
                  LAMBDA max_z :
            IF IsRaise(max_z) THEN max_z
            ELSE passed_expanded([k \in 1..Len(parsed) |-> parsed[k].value], max_z.value)))

\* the body of the try with the record parsed before the code is read
parse_failed_row_parse_first(row) ==
    LET rec == parse_simple_record(row, 6) IN
    IF IsRaise(rec) THEN rec
    ELSE IF Len(row) < InputFileColumn.QC THEN Raise("IndexError", "list index")
    ELSE Return_([rec |-> rec.value, qc |-> row[InputFileColumn.QC]])

\* the body of the try: qc = row[QC], then the record; the IndexError of a
\* row without a QC field is logged and raised again
parse_failed_row(row) ==
    IF Len(row) < InputFileColumn.QC THEN Raise("IndexError", "list index")
    ELSE
    LET rec == parse_simple_record(row, 6) IN
    IF IsRaise(rec) THEN rec
    ELSE Return_([rec |-> rec.value, qc |-> row[InputFileColumn.QC]])

\* the code attached once per row instead of once per point
codes_for_once(qc, n_points) == <<qc>>

\* [qc] * len(new_points)
codes_for(qc, n_points) == [i \in 1..n_points |-> qc]

\* lines 143-159, for the (record, code) pairs and the greatest z
failed_expanded(record_qc_pairs, max_z) ==
    Bind([k \in 1..Len(record_qc_pairs) |->
            expand_along_z(record_qc_pairs[k].rec, max_z)], LAMBDA expanded :
        IF AnyRaise(expanded) THEN FirstRaise(expanded)
        ELSE Return_(
            [points |-> Concat([k \in 1..Len(expanded) |-> expanded[k].value.points]),
             center_flags |-> Concat([k \in 1..Len(expanded) |-> expanded[k].value.flags]),
             params |->
                [size |-> PyIntVal(0),
                 text |-> [string |-> "{failCodes}", color |-> "DEEP_SKY_BLUE"],
                 properties |->
                    [failCodes |-> Concat([k \in 1..Len(expanded) |->
                        codes_for(record_qc_pairs[k].qc,
                                  Len(expanded[k].value.points))])]]]))

parse_failed(rows) ==
    Bind([k \in 1..Len(rows) |-> parse_failed_row(rows[k])], LAMBDA parsed :
        IF AnyRaise(parsed) THEN FirstRaise(parsed)
        ELSE Bind(PyMax([k \in 1..Len(parsed) |-> get_z_coordinate(parsed[k].value.rec)]),
                  LAMBDA max_z :
            IF IsRaise(max_z) THEN max_z
            ELSE failed_expanded([k \in 1..Len(parsed) |-> parsed[k].value], max_z.value)))

(***************************************************************************)
(* str and os.path operations used by get_reader                           *)
(***************************************************************************)
UpperCase == << "A", "B", "C", "D", "E", "F", "G", "H", "I", "J", "K", "L", "M",
                "N", "O", "P", "Q", "R", "S", "T", "U", "V", "W", "X", "Y", "Z" >>

LowerCase == << "a", "b", "c", "d", "e", "f", "g", "h", "i", "j", "k", "l", "m",
                "n", "o", "p", "q", "r", "s", "t", "u", "v", "w", "x", "y", "z" >>

LowerChar(c) ==
    IF \E i \in 1..26 : UpperCase[i] = c
    THEN LowerCase[CHOOSE i \in 1..26 : UpperCase[i] = c]
    ELSE c

\* str.lower
lower(s) == [i \in 1..Len(s) |-> LowerChar(s[i])]

\* str.rfind(c), as a position from 1; 0 when c does not occur
rfind(s, c) ==
    IF \E i \in 1..Len(s) : s[i] = c
    THEN CHOOSE i \in 1..Len(s) : s[i] = c /\ \A j \in (i + 1)..Len(s) : s[j] # c
    ELSE 0

\* os.path.basename: what follows the last "/"
basename(path) == SubSeq(path, rfind(path, "/") + 1, Len(path))

\* os.path.splitext: split at the last dot of the last path component unless
\* only dots precede it there; <<root, ext>>
splitext(path) ==
    LET sepIndex == rfind(path, "/")
        dotIndex == rfind(path, ".")
    IN
    IF dotIndex > sepIndex /\ \E i \in (sepIndex + 1)..(dotIndex - 1) : path[i] # "."
    THEN << SubSeq(path, 1, dotIndex - 1), SubSeq(path, dotIndex, Len(path)) >>
    ELSE << path, <<>> >>

\* s.split(".")[-1]: what follows the last dot
last_segment(s) == SubSeq(s, rfind(s, ".") + 1, Len(s))

\* str.lstrip(chars): drop leading characters while they occur in chars
lstrip(s, chars) ==
    LET in_chars(c) == \E i \in 1..Len(chars) : chars[i] = c
        kept == { i \in 1..Len(s) : ~ in_chars(s[i]) }
    IN
    IF kept = {} THEN <<>>
    ELSE SubSeq(s, CHOOSE i \in kept : \A j \in kept : i <= j, Len(s))

(***************************************************************************)
(* locus_specific_points_reader.py: get_reader                             *)
(***************************************************************************)
\* the status name taken without lower-casing the base name
status_name_case_kept(base) ==
    lstrip(lstrip(last_segment(base), <<"q", "c", "_">>), <<"q", "c">>)

\* status_name = base.lower().split(".")[-1].lstrip("qc_").lstrip("qc")
status_name(base) ==
    lstrip(lstrip(last_segment(lower(base)), <<"q", "c", "_">>), <<"q", "c">>)

PassNames == { <<"p", "a", "s", "s">>, <<"p", "a", "s", "s", "e", "d">> }

FailNames == { <<"f", "a", "i", "l">>, <<"f", "a", "i", "l", "e", "d">> }

\* what get_reader hands back: None, or the reader closed over the row
\* parser and the color
None == [is_none |-> TRUE, read_rows |-> "", color |-> ""]

Reader(read_rows, color) == [is_none |-> FALSE, read_rows |-> read_rows, color |-> color]

\* path: [is_path_like, text, is_file]; is_file is os.path.isfile(path)
get_reader(path) ==
    IF ~ path.is_path_like THEN Return_(None)
    ELSE IF ~ path.is_file THEN Return_(None)
    ELSE
    LET parts == splitext(basename(path.text))
        base == parts[1]
        ext == parts[2]
    IN
    IF ext # <<".", "c", "s", "v">> THEN Return_(None)
    ELSE IF status_name(base) \in PassNames THEN Return_(Reader("parse_passed", "GOLDENROD"))
    ELSE IF status_name(base) \in FailNames THEN Return_(Reader("parse_failed", "DEEP_SKY_BLUE"))
    ELSE Return_(None)

(***************************************************************************)
(* locus_specific_points_reader.py: the parser built by get_reader         *)
(***************************************************************************)
static_params ==
    [edge_width |-> PyFloatVal(1), edge_width_is_relative |-> TRUE,
     n_dimensional |-> FALSE]

\* the meta data with the face left in the other color
base_meta_two_colors(color) == [edge_color |-> color, face_color |-> "DEEP_SKY_BLUE"]

\* base_meta = {"edge_color": color, "face_color": color}
base_meta(color) == [edge_color |-> color, face_color |-> color]

\* the symbols with the star for every point
shape_meta_all_stars(center_flags) ==
    [symbol |-> [k \in 1..Len(center_flags) |-> "*"]]

\* shape_meta = {"symbol": ["*" if is_center else "o" for ... in center_flags]}
shape_meta(center_flags) ==
    [symbol |-> [k \in 1..Len(center_flags) |-> IF center_flags[k] THEN "*" ELSE "o"]]

\* {**a, **b}: the keys of both, the values of b where both have the key
DictMerge(a, b) ==
    [k \in DOMAIN a \cup DOMAIN b |-> IF k \in DOMAIN b THEN b[k] ELSE a[k]]

\* read_rows(rows), for the row parser the reader was closed over
read_rows(reader, rows) ==
    IF reader.read_rows = "parse_passed" THEN parse_passed(rows) ELSE parse_failed(rows)

\* parse(p), for the rows csv.reader yields from the file p; warnings is
\* what the call logs at warning level
parse(reader, rows) ==
    Bind(read_rows(reader, rows), LAMBDA out :
        IF IsRaise(out) THEN out
        ELSE Return_(
            [data |-> [k \in 1..Len(out.value.points) |-> flatten(out.value.points[k])],
             params |-> DictMerge(DictMerge(DictMerge(static_params,
                                                      base_meta(reader.color)),
                                            out.value.params),
                                  shape_meta(out.value.center_flags)),
             layer_type |-> "points",
             warnings |-> IF out.value.points = <<>>
                          THEN <<"No data rows parsed!">> ELSE <<>>]))

\* lambda p: [parse(p)]
call_reader(reader, rows) ==
    Bind(parse(reader, rows), LAMBDA layer :
        IF IsRaise(layer) THEN layer ELSE Return_(<<layer.value>>))

(***************************************************************************)
(* nuclei_reader.py: arrays                                                *)
(*   array : [shape |-> <<axis lengths>>, file |-> <text of the path it    *)
(*           was read from>, view |-> <<the indexing and projection steps  *)
(*           taken since>>]                                                *)
(***************************************************************************)
\* what zarr.open(data_root)[:] gives for a store of the given shape
Array(shape, file) == [shape |-> shape, file |-> file, view |-> <<>>]

\* a[i] on the first axis; a negative i counts from the end
Item(a, i) ==
    IF a.shape = <<>> THEN Raise("IndexError", "too many indices")
    ELSE IF i >= a.shape[1] \/ i < 0 - a.shape[1] THEN Raise("IndexError", "out of bounds")
    ELSE Return_([shape |-> Tail(a.shape), file |-> a.file,
                  view |-> Append(a.view, [step |-> "item", i |-> i % a.shape[1]])])

\* max_project_z(img) = da.max(img, axis=0) of a 3D image
max_project_z(img) ==
    IF Len(img.shape) # 3 THEN Raise("ValueError", "max-z-project needs 3 dimensions")
    ELSE Return_([shape |-> Tail(img.shape), file |-> img.file,
                  view |-> Append(img.view, [step |-> "max", i |-> 0])])

(***************************************************************************)
(* nuclei_reader.py: determine_nuclei_channel, NucleiVisualisationData     *)
(***************************************************************************)
\* the Python value None, among the numbers
NoneValue == [t |-> "None", v |-> 0]

\* env is os.getenv(LOOPTRACE_NAPARI_NUCLEI_CHANNEL, ""): the text of the
\* variable, empty when it is not set.  The function ends after the try
\* statement without a return statement, so a call that does not raise
\* returns None; int() of a text raises ValueError, which the handler for
\* TypeError lets through.
determine_nuclei_channel(env) ==
    IF env = <<>> THEN Raise("ValueError", "nuclei channel must be specified")
    ELSE Bind(PyInt(env), LAMBDA nuc_channel :
        IF IsRaise(nuc_channel)
        THEN IF nuc_channel.exc = "TypeError"
             THEN Raise("ValueError", "Illegal nuclei channel value")
             ELSE nuc_channel
        ELSE Return_(NoneValue))

\* lines 146-152: a 5D image loses a first axis of length 1
image_from_5D(image) ==
    IF Len(image.shape) = 5
    THEN IF image.shape[1] # 1
         THEN Raise("ValueError", "5D image must have trivial first dimension")
         ELSE Item(image, 0)
    ELSE Return_(image)

\* lines 162-174: nuc_channel >= self.image.shape[0] compares what
\* determine_nuclei_channel returned with an int
image_of_nuclei_channel(image, env) ==
    Bind(determine_nuclei_channel(env), LAMBDA nuc_channel :
        IF IsRaise(nuc_channel) THEN nuc_channel
        ELSE IF nuc_channel.value.t # "int"
        THEN Raise("TypeError", ">= not supported between NoneType and int")
        ELSE IF nuc_channel.value.v >= image.shape[1]
        THEN Raise("ValueError", "Illegal nuclei channel value for channel axis")
        ELSE Item(image, nuc_channel.value.v))

\* lines 153-174: a 4D image loses its channel axis
image_from_4D(image, env) ==
    IF Len(image.shape) = 4
    THEN IF image.shape[1] = 1 THEN Item(image, 0)
         ELSE image_of_nuclei_channel(image, env)
    ELSE Return_(image)

\* lines 175-181: a 3D image loses its z axis
image_from_3D(image) ==
    IF Len(image.shape) = 3
    THEN IF image.shape[1] = 1 THEN Item(image, 0) ELSE max_project_z(image)
    ELSE Return_(image)

\* lines 182-189
image_2D(image) ==
    IF Len(image.shape) = 2 THEN Return_(image)
    ELSE Raise("ValueError", "Cannot use image with this many dimensions")

\* lines 146-189, the image as __post_init__ leaves it
reduced_image(image, env) ==
    Bind(image_from_5D(image), LAMBDA a :
        IF IsRaise(a) THEN a
        ELSE Bind(image_from_4D(a.value, env), LAMBDA b :
            IF IsRaise(b) THEN b
            ELSE Bind(image_from_3D(b.value), LAMBDA c :
                IF IsRaise(c) THEN c ELSE image_2D(c.value))))

\* masks[0, 0, 0]
Item000(masks) ==
    [shape |-> SubSeq(masks.shape, 4, Len(masks.shape)), file |-> masks.file,
     view |-> masks.view \o [k \in 1..3 |-> [step |-> "item", i |-> 0]]]

\* lines 192-199: 5D masks lose trivial (t, c, z) axes
masks_from_5D(masks) ==
    IF Len(masks.shape) = 5
    THEN IF \E k \in 1..3 : masks.shape[k] # 1
         THEN Raise("ValueError", "5D nuclear masks with nontrivial (t, c, z) axis")
         ELSE Return_(Item000(masks))
    ELSE Return_(masks)

\* the masks taken whatever their dimensions
masks_2D_unchecked(masks) == Return_(masks)

\* lines 200-204
masks_2D(masks) ==
    IF Len(masks.shape) # 2 THEN Raise("ValueError", "Need 2D image for nuclear masks")
    ELSE Return_(masks)

\* lines 192-204, the masks as __post_init__ leaves them
reduced_masks(masks) ==
    Bind(masks_from_5D(masks), LAMBDA m :
        IF IsRaise(m) THEN m ELSE masks_2D(m.value))

\* NucleiVisualisationData(image=image, masks=masks, centers=centers) in an
\* environment where the channel variable reads env
NucleiVisualisationData(image, masks, centers, env) ==
    Bind(reduced_image(image, env), LAMBDA im :
        IF IsRaise(im) THEN im
        ELSE Bind(reduced_masks(masks), LAMBDA ma :
            IF IsRaise(ma) THEN ma
            ELSE Return_([image |-> im.value, masks |-> ma.value, centers |-> centers])))

(***************************************************************************)
(* types.py: FieldOfViewFrom1, NucleusNumber; geometry.py: ImagePoint2D    *)
(***************************************************************************)
\* a field of view is kept as the number [t |-> "FieldOfViewFrom1", v |-> get]
FieldOfViewFrom1(n) ==
    IF n.t # "int" THEN Raise("TypeError", "Non-integer as 1-based FOV")
    ELSE IF n.v < 1 THEN Raise("ValueError", "1-based FOV must be positive int")
    ELSE Return_([t |-> "FieldOfViewFrom1", v |-> n.v])

NucleusNumber(n) ==
    IF n.t # "int" THEN Raise("TypeError", "Non-integer as nucleus number")
    ELSE IF n.v < 1 THEN Raise("ValueError", "Nucleus number must be positive int")
    ELSE Return_([get |-> n])

\* ImagePoint2D(y=y, x=x): the dataclass constructor with __post_init__
ImagePoint2D(y, x) ==
    Bind(ImagePoint2D_post_init(x, y), LAMBDA checked :
        IF IsRaise(checked) THEN checked ELSE Return_([y |-> y, x |-> x]))

(***************************************************************************)
(* str, dict and sorted() as the nuclei reader uses them                   *)
(***************************************************************************)
startswith(s, prefix) ==
    Len(prefix) <= Len(s) /\ SubSeq(s, 1, Len(prefix)) = prefix

endswith(s, suffix) ==
    Len(suffix) <= Len(s) /\ SubSeq(s, Len(s) - Len(suffix) + 1, Len(s)) = suffix

\* str.rstrip(chars): drop trailing characters while they occur in chars
rstrip(s, chars) ==
    LET in_chars(c) == \E i \in 1..Len(chars) : chars[i] = c
        kept == { i \in 1..Len(s) : ~ in_chars(s[i]) }
    IN
    IF kept = {} THEN <<>>
    ELSE SubSeq(s, 1, CHOOSE i \in kept : \A j \in kept : j <= i)

\* a dict is the set of its <<key, value>> items
keys(d) == { kv[1] : kv \in d }

getitem(d, k) == (CHOOSE kv \in d : kv[1] = k)[2]

setitem(d, k, v) == { kv \in d : kv[1] # k } \cup { <<k, v>> }

\* the members of S from the largest to the least
sorted_descending(S) ==
    CHOOSE s \in [1..Cardinality(S) -> S] :
        \A i, j \in 1..Cardinality(S) : i < j => s[i] > s[j]

\* sorted(S) for a set of fields of view, which order by their number
sorted(S) ==
    CHOOSE s \in [1..Cardinality(S) -> S] :
        \A i, j \in 1..Cardinality(S) : i < j => s[i] < s[j]

(***************************************************************************)
(* nuclei_reader.py: the folder of nuclei data                             *)
(*   disk : [images, masks, centers |-> what os.listdir gives for the      *)
(*          subfolder, in the order it gives it]                           *)
(***************************************************************************)
zarr == <<".", "z", "a", "r", "r">>

nuclear_masks_csv ==
    <<".", "n", "u", "c", "l", "e", "a", "r", "_", "m", "a", "s", "k", "s",
      ".", "c", "s", "v">>

\* NucleiDataSubfolders
IMAGES == <<"n", "u", "c", "_", "i", "m", "a", "g", "e", "s">>

MASKS == <<"n", "u", "c", "_", "m", "a", "s", "k", "s">>

CENTERS ==
    <<"_", "n", "u", "c", "l", "e", "a", "r", "_", "m", "a", "s", "k", "s", "_",
      "v", "i", "s", "u", "a", "l", "i", "s", "a", "t", "i", "o", "n">>

\* Path(p) / name
relpath(name, p) == p \o <<"/">> \o name

os_listdir(disk, folder) ==
    IF basename(folder) = IMAGES THEN disk.images
    ELSE IF basename(folder) = MASKS THEN disk.masks
    ELSE disk.centers

\* the file names found in the subfolders
P(number, extension) == <<"P">> \o number \o extension

\* the zarr stores: where .zarray lies ("flat" in the store, "nested" in its
\* folder 0) and the shape of the array
zarr_store(root) ==
    LET fn == basename(root)
        in_images == endswith(root, relpath(fn, IMAGES))
    IN
    IF in_images
    THEN IF fn = P(<<"0", "0", "0", "1">>, zarr)
            THEN [layout |-> "nested", shape |-> <<1, 1, 2, 2, 2>>]
         ELSE IF fn = P(<<"0", "0", "0", "2">>, zarr)
            THEN [layout |-> "flat", shape |-> <<1, 2, 2>>]
         ELSE IF fn = P(<<"0", "0", "0", "3">>, zarr)
            THEN [layout |-> "flat", shape |-> <<2, 3>>]
         ELSE IF fn = P(<<"0", "1">>, zarr)
            THEN [layout |-> "flat", shape |-> <<2, 1, 2, 2>>]
         ELSE [layout |-> "none", shape |-> <<>>]
    ELSE IF fn = P(<<"0", "0", "0", "1">>, zarr)
            THEN [layout |-> "flat", shape |-> <<2, 2>>]
         ELSE IF fn = P(<<"0", "0", "0", "2">>, zarr)
            THEN [layout |-> "nested", shape |-> <<1, 1, 1, 2, 2>>]
         ELSE IF fn = P(<<"0", "0", "0", "3">>, zarr)
            THEN [layout |-> "flat", shape |-> <<2, 3>>]
         ELSE [layout |-> "none", shape |-> <<>>]

\* the rows pandas reads from a centers file: label, yc, xc
csv_rows(fp) ==
    LET fn == basename(fp) IN
    IF fn = P(<<"0", "0", "0", "1">>, nuclear_masks_csv)
    THEN << [label |-> PyIntVal(1), yc |-> PyFloatVal(50), xc |-> PyFloatVal(70)],
            [label |-> PyIntVal(2), yc |-> PyFloatVal(30), xc |-> PyFloatVal(45)] >>
    ELSE IF fn = P(<<"0", "0", "0", "2">>, nuclear_masks_csv)
    THEN << [label |-> PyIntVal(1), yc |-> PyFloatVal(10), xc |-> PyFloatVal(20)] >>
    ELSE IF fn = P(<<"0", "0", "0", "3">>, nuclear_masks_csv)
    THEN << [label |-> PyIntVal(3), yc |-> PyFloatVal(0), xc |-> PyFloatVal(25)] >>
    ELSE <<>>

\* _read_zarr(root)
read_zarr(root) ==
    IF zarr_store(root).layout \in {"flat", "nested"}
    THEN Return_(Array(zarr_store(root).shape, root))
    ELSE Raise("ZarrParseException", "Failed to find .zarray")

\* _read_csv(fp): every row becomes (NucleusNumber(n), ImagePoint2D(y=y, x=x))
read_csv_row(row) ==
    Bind(NucleusNumber(row.label), LAMBDA nuc :
        IF IsRaise(nuc) THEN nuc
        ELSE Bind(ImagePoint2D(row.yc, row.xc), LAMBDA pt :
            IF IsRaise(pt) THEN pt
            ELSE Return_([nuc |-> nuc.value, pt |-> pt.value])))

read_csv(fp) ==
    Bind([k \in 1..Len(csv_rows(fp)) |-> read_csv_row(csv_rows(fp)[k])], LAMBDA read :
        IF AnyRaise(read) THEN FirstRaise(read)
        ELSE Return_([k \in 1..Len(read) |-> read[k].value]))

(***************************************************************************)
(* nuclei_reader.py: get_fov_sort_key, find_paths_by_fov                   *)
(***************************************************************************)
\* path: [is_path_like, text]
get_fov_sort_key(path, extension) ==
    IF ~ path.is_path_like THEN Raise("TypeError", "Cannot parse sort-by-FOV key")
    ELSE
    LET fn == basename(path.text) IN
    IF ~ (startswith(fn, <<"P">>) /\ endswith(fn, extension)) THEN Return_(NoneValue)
    ELSE
    LET stripped == rstrip(lstrip(fn, <<"P">>), extension)
        rawval == IF endswith(stripped, extension)
                  THEN rstrip(stripped, extension) ELSE stripped
    IN
    Bind(PyInt(rawval), LAMBDA n :
        IF IsRaise(n)
        THEN IF n.exc = "ValueError" THEN Return_(NoneValue) ELSE n
        ELSE FieldOfViewFrom1(n.value))

\* the loop of find_paths_by_fov over the names still to visit
RECURSIVE find_paths_from(_, _, _, _)
find_paths_from(folder, names, extension, image_paths) ==
    IF names = <<>> THEN Return_(image_paths)
    ELSE
    Bind(get_fov_sort_key([is_path_like |-> TRUE, text |-> relpath(Head(names), folder)],
                          extension),
         LAMBDA fov :
            IF IsRaise(fov) THEN fov
            ELSE IF fov.value.t = "None"
            THEN find_paths_from(folder, Tail(names), extension, image_paths)
            ELSE IF fov.value.v \in keys(image_paths)
            THEN Raise("RuntimeError", "FOV already seen in folder")
            ELSE find_paths_from(folder, Tail(names), extension,
                                 setitem(image_paths, fov.value.v,
                                         relpath(Head(names), folder))))

find_paths_by_fov(disk, folder, extension) ==
    find_paths_from(folder, os_listdir(disk, folder), extension, {})

(***************************************************************************)
(* nuclei_reader.py: read_all_from_root, build_layers, the reader          *)
(***************************************************************************)
\* lines 99-112: the loop over the sorted fields of view still to read
RECURSIVE read_bundles(_, _, _, _, _, _)
read_bundles(fovs, image_paths, masks_paths, centers_paths, env, bundles) ==
    IF fovs = <<>> THEN Return_(bundles)
    ELSE
    Bind(read_zarr(getitem(image_paths, Head(fovs))), LAMBDA image :
        IF IsRaise(image) THEN image
        ELSE Bind(read_zarr(getitem(masks_paths, Head(fovs))), LAMBDA masks :
            IF IsRaise(masks) THEN masks
            ELSE Bind(read_csv(getitem(centers_paths, Head(fovs))), LAMBDA centers :
                IF IsRaise(centers) THEN centers
                ELSE Bind(NucleiVisualisationData(image.value, masks.value,
                                                  centers.value, env),
                          LAMBDA visdata :
                    IF IsRaise(visdata) THEN visdata
                    ELSE read_bundles(Tail(fovs), image_paths, masks_paths,
                                      centers_paths, env,
                                      setitem(bundles, Head(fovs), visdata.value))))))

\* the fields of view with a path in each of the three mappings
fields_of_view(image_paths, masks_paths, centers_paths) ==
    keys(image_paths) \cap keys(masks_paths) \cap keys(centers_paths)

\* NucleiDataSubfolders.read_all_from_root(p)
read_all_from_root(p, disk, env) ==
    Bind(find_paths_by_fov(disk, relpath(IMAGES, p), zarr), LAMBDA image_paths :
        IF IsRaise(image_paths) THEN image_paths
        ELSE Bind(find_paths_by_fov(disk, relpath(MASKS, p), zarr), LAMBDA masks_paths :
            IF IsRaise(masks_paths) THEN masks_paths
            ELSE Bind(find_paths_by_fov(disk, relpath(CENTERS, p), nuclear_masks_csv),
                      LAMBDA centers_paths :
                IF IsRaise(centers_paths) THEN centers_paths
                ELSE read_bundles(
                        sorted(fields_of_view(image_paths.value, masks_paths.value,
                                              centers_paths.value)),
                        image_paths.value, masks_paths.value, centers_paths.value,
                        env, {}))))

\* da.stack(arrays): a new first axis over arrays of one shape
da_stack(arrays) ==
    IF arrays = <<>> THEN Raise("ValueError", "Need array(s) to stack")
    ELSE IF \E k \in 1..Len(arrays) : arrays[k].shape # arrays[1].shape
    THEN Raise("ValueError", "all arrays must have the same shape")
    ELSE Return_([shape |-> <<Len(arrays)>> \o arrays[1].shape, stacked |-> arrays])

\* sorted(bundles.items(), key=itemgetter(0))
sorted_items(bundles) ==
    Bind(sorted(keys(bundles)), LAMBDA fovs :
        [k \in 1..Len(fovs) |-> <<fovs[k], getitem(bundles, fovs[k])>>])

\* lines 217-219 for entry i of the enumeration: its points, or its labels
points_of(i, visdata) ==
    [j \in 1..Len(visdata.centers) |->
        <<PyIntVal(i), visdata.centers[j].pt.y, visdata.centers[j].pt.x>>]

labels_of(visdata) ==
    [j \in 1..Len(visdata.centers) |-> visdata.centers[j].nuc.get]

labs_text == [string |-> "{nucleus}", size |-> 10, color |-> "black"]

\* lines 222-242, from the lists the loop built
layers_of(items, images, masks) ==
    IF IsRaise(images) THEN images
    ELSE IF IsRaise(masks) THEN masks
    ELSE Return_(
        << [data |-> images.value, params |-> [name |-> "max_proj_z"],
            layer_type |-> "image"],
           [data |-> masks.value, params |-> [name |-> "masks"],
            layer_type |-> "labels"],
           [data |-> Concat([k \in 1..Len(items) |-> points_of(k - 1, items[k][2])]),
            params |-> [name |-> "labels", size |-> 0, text |-> labs_text,
                        properties |->
                            [nucleus |-> Concat([k \in 1..Len(items) |->
                                                    labels_of(items[k][2])])]],
            layer_type |-> "points"] >>)

build_layers(bundles) ==
    Bind(sorted_items(bundles), LAMBDA items :
        Bind(da_stack([k \in 1..Len(items) |-> items[k][2].image]), LAMBDA images :
            Bind(da_stack([k \in 1..Len(items) |-> items[k][2].masks]), LAMBDA masks :
                layers_of(items, images, masks))))

\* lambda root: build_layers(NucleiDataSubfolders.read_all_from_root(root))
nuclei_reader(root, disk, env) ==
    Bind(read_all_from_root(root, disk, env), LAMBDA bundles :
        IF IsRaise(bundles) THEN bundles ELSE build_layers(bundles.value))

(***************************************************************************)
(* Inputs                                                                  *)
(***************************************************************************)
\* the field texts rows are built from: integers, floats, a negative float
\* and a text that is no number
FieldTexts ==
    { <<"3">>, <<"0">>, <<"2", ".", "7">>, <<"-", "1", ".", "5">>, <<"x">> }

RECURSIVE SeqsUpTo(_, _)
SeqsUpTo(S, n) ==
    IF n = 0 THEN { <<>> }
    ELSE LET shorter == SeqsUpTo(S, n - 1) IN
         shorter \cup { Append(s, e) : s \in { t \in shorter : Len(t) = n - 1 }, e \in S }

Rows == SeqsUpTo(FieldTexts, MaxRowLen)

\* the field counts the readers ask for: 5 for pass rows, 6 for fail rows
ExpNumFields == {5, 6}

\* the rows of the files handed to parse_passed and parse_failed: 5-field
\* rows with a z that is fractional, whole, negative or no number, the same
\* with a reason code, and rows that are too short or too long
FileRows5 ==
    { << t, <<"0">>, z, <<"2", ".", "7">>, <<"3">> >> :
        t \in { <<"3">>, <<"0">> },
        z \in { <<"2", ".", "7">>, <<"0">>, <<"-", "1", ".", "5">>, <<"x">> } }

ReasonCodes == { <<"S", "N", "R">>, <<"f", "a", "r">> }

FileRows6 == { Append(r, c) : r \in FileRows5, c \in ReasonCodes }

FileRowsOdd ==
    { <<>>,
      << <<"3">>, <<"0">>, <<"2", ".", "7">> >>,
      << <<"x">>, <<"0">>, <<"2", ".", "7">>, <<"0">> >>,
      << <<"3">>, <<"0">>, <<"2", ".", "7">>, <<"2", ".", "7">>, <<"3">>,
         <<"S", "N", "R">>, <<"3">> >>,
      << <<"x">>, <<"0">>, <<"0">>, <<"2", ".", "7">>, <<"3">>,
         <<"f", "a", "r">>, <<"x">> >> }

FileRows == FileRows5 \cup FileRows6 \cup FileRowsOdd

Files == SeqsUpTo(FileRows, MaxRows)

\* paths: an optional folder, an optional leading segment, a prefix, a
\* token and an extension
PathFolders == { <<>>, <<"d", ".", "x", "/">> }

PathLeads == { <<>>, <<"s", ".">> }

PathPrefixes ==
    { <<>>, <<"q", "c">>, <<"q", "c", "_">>, <<"Q", "C", "_">>, <<"Q", "c">>,
      <<"c">>, <<"_">>, <<"q", "c", "q", "c", "_">>, <<"x">> }

PathTokens ==
    { <<"p", "a", "s", "s">>, <<"p", "a", "s", "s", "e", "d">>,
      <<"f", "a", "i", "l">>, <<"f", "a", "i", "l", "e", "d">>,
      <<"P", "A", "S", "S">>, <<"P", "a", "s", "s", "e", "d">>,
      <<"F", "a", "i", "l">>, <<"F", "A", "I", "L", "E", "D">>,
      <<"p", "a", "s">>, <<"s", "p", "o", "t", "s">>, <<>> }

PathExtensions ==
    { <<".", "c", "s", "v">>, <<".", "C", "S", "V">>, <<".", "j", "s", "o", "n">>, <<>> }

PathTexts ==
    { d \o l \o p \o t \o e :
        d \in PathFolders, l \in PathLeads, p \in PathPrefixes,
        t \in PathTokens, e \in PathExtensions }

\* strings naming files, strings naming no file, and a list of paths
PathArgs ==
    { [is_path_like |-> TRUE, text |-> t, is_file |-> f] :
        t \in PathTexts, f \in BOOLEAN }
    \cup { [is_path_like |-> FALSE, text |-> <<>>, is_file |-> FALSE] }

\* trace identifiers, timepoints and y, x coordinates of drawn records
TraceIds == { PyIntVal(0), PyIntVal(3) }

Timepoints == { PyIntVal(0), PyIntVal(1) }

XYCoords == { PyFloatVal(100), PyFloatVal(50) }

\* z values in steps of one half from -1.5 to MaxZ + 0.5, and whole slices
ZFloats == { PyFloatVal(5 * k) : k \in (-3)..(2 * MaxZ + 1) }

ZInts == { PyIntVal(k) : k \in (-1)..MaxZ }

ZCoords == ZFloats \cup ZInts

\* every PointRecord the constructors accept
PointRecords ==
    { PointRecord(TraceIdFrom0(t).value, TimepointFrom0(tp).value,
                  ImagePoint3D(z, y, x).value) :
        t \in TraceIds, tp \in Timepoints,
        z \in { c \in ZCoords : \A yy \in XYCoords : IsReturn(ImagePoint3D(c, yy, yy)) },
        y \in XYCoords, x \in XYCoords }

\* the z_max arguments: floats, ints and a value that is no number
ZMaxArgs == ZCoords \cup { PyIntVal(-2), NotANumber }

\* coordinates handed to the point constructor directly
CoordArgs == { PyFloatVal(100), PyFloatVal(-50), PyFloatVal(0), PyIntVal(5) }

ZArgs == { PyFloatVal(27), PyFloatVal(-15), PyFloatVal(0), PyIntVal(2),
           PyIntVal(-1), NotANumber }

\* the axis lengths arrays are drawn with: a trivial axis and a longer one
AxisLengths == {1, 2}

\* the shapes of the nuclei images handed to NucleiVisualisationData
ImageShapes == SeqsUpTo(AxisLengths, MaxDims)

\* the shapes of the masks: all axes trivial but at most one
MasksShapes ==
    { s \in ImageShapes : Cardinality({ k \in 1..Len(s) : s[k] # 1 }) <= 1 }

\* the texts of LOOPTRACE_NAPARI_NUCLEI_CHANNEL: not set, a channel of a
\* two-channel image, a channel past its end, and no integer
NucleiChannelEnvs == { <<>>, <<"0">>, <<"1">>, <<"2">>, <<"x">> }

\* the names found in the three subfolders: fields of view 1, 2 and 3, a
\* second name for field of view 1, and a name that holds no field of view
ImageNames ==
    { P(<<"0", "0", "0", "1">>, zarr), P(<<"0", "0", "0", "2">>, zarr),
      P(<<"0", "0", "0", "3">>, zarr), P(<<"0", "1">>, zarr) }

MasksNames ==
    { P(<<"0", "0", "0", "1">>, zarr), P(<<"0", "0", "0", "2">>, zarr),
      P(<<"0", "0", "0", "3">>, zarr), <<"Q", "1">> \o zarr }

CentersNames ==
    { P(<<"0", "0", "0", "1">>, nuclear_masks_csv),
      P(<<"0", "0", "0", "2">>, nuclear_masks_csv),
      P(<<"0", "0", "0", "3">>, nuclear_masks_csv) }

\* what os.listdir can give for a folder holding some of the names, in any
\* order
Listings(names) ==
    { s \in SeqsUpTo(names, MaxFiles) : \A i, j \in 1..Len(s) : i # j => s[i] # s[j] }

Disks ==
    [images : Listings(ImageNames), masks : Listings(MasksNames),
     centers : Listings(CentersNames)]

\* the folder the nuclei reader is called on
NucleiRoot == <<"d">>

\* the channel variable while the nuclei reader runs: not set, or set
NucleiReaderEnvs == { <<>>, <<"1">> }

\* the arguments of get_fov_sort_key: names with and without a field of
\* view, with the number 0 or a negative number, with text after the number,
\* with the extension twice, and a value that is no path
SortKeyNames ==
    { P(<<"0", "0", "0", "2">>, zarr), P(<<"0">>, zarr), P(<<"-", "1">>, zarr),
      P(<<"1", "a">>, zarr), P(<<"x", "y">>, zarr), P(<<>>, zarr),
      P(<<"7">>, zarr \o zarr), <<"n", "u", "c">> \o zarr,
      P(<<"7">>, nuclear_masks_csv), P(<<"7">>, <<".", "c", "s", "v">>) }

SortKeyPaths ==
    { [is_path_like |-> TRUE, text |-> relpath(n, relpath(IMAGES, NucleiRoot))] :
        n \in SortKeyNames }
    \cup { [is_path_like |-> TRUE, text |-> P(<<"3">>, zarr)],
           [is_path_like |-> FALSE, text |-> <<>>] }

(***************************************************************************)
(* Actions                                                                 *)
(***************************************************************************)
Init ==
    /\ pc = "idle"
    /\ op = "none"
    /\ args = <<>>
    /\ result = Return_("None")

Call(name, a, outcome) ==
    /\ pc = "idle"
    /\ pc' = "done"
    /\ op' = name
    /\ args' = a
    /\ result' = outcome

CallParseSimpleRecord ==
    /\ pc = "idle"
    /\ \E r \in Rows, n \in ExpNumFields :
        Call("parse_simple_record", <<r, n>>, parse_simple_record(r, n))

CallReaderParseSimpleRecord ==
    /\ pc = "idle"
    /\ \E r \in Rows, n \in ExpNumFields :
        Call("reader.parse_simple_record", <<r, n>>, reader_parse_simple_record(r, n))

CallParsePassed ==
    /\ pc = "idle"
    /\ \E rows \in Files : Call("parse_passed", <<rows>>, parse_passed(rows))

CallParseFailed ==
    /\ pc = "idle"
    /\ \E rows \in Files : Call("parse_failed", <<rows>>, parse_failed(rows))

CallGetReader ==
    /\ pc = "idle"
    /\ \E path \in PathArgs : Call("get_reader", <<path>>, get_reader(path))

CallImagePoint3D ==
    /\ pc = "idle"
    /\ \E z \in ZArgs, y \in CoordArgs, x \in CoordArgs :
        Call("ImagePoint3D", <<z, y, x>>, ImagePoint3D(z, y, x))

CallExpandAlongZ ==
    /\ pc = "idle"
    /\ \E r \in PointRecords, z_max \in ZMaxArgs :
        Call("expand_along_z", <<r, z_max>>, expand_along_z(r, z_max))

\* the host calls the reader get_reader handed it on the rows of the file
CallReader ==
    /\ pc = "idle"
    /\ op = "reader held"
    /\ \E rows \in Files :
        Call("reader", <<result.value, rows>>, call_reader(result.value, rows))

CallDetermineNucleiChannel ==
    /\ pc = "idle"
    /\ \E env \in NucleiChannelEnvs :
        Call("determine_nuclei_channel", <<env>>, determine_nuclei_channel(env))

CallNucleiVisualisationData ==
    /\ pc = "idle"
    /\ \E shape \in ImageShapes, masks_shape \in MasksShapes, env \in NucleiChannelEnvs :
        Call("NucleiVisualisationData",
             <<Array(shape, <<"i">>), Array(masks_shape, <<"m">>), <<>>, env>>,
             NucleiVisualisationData(Array(shape, <<"i">>), Array(masks_shape, <<"m">>),
                                     <<>>, env))

CallGetFovSortKey ==
    /\ pc = "idle"
    /\ \E path \in SortKeyPaths, extension \in {zarr, nuclear_masks_csv} :
        Call("get_fov_sort_key", <<path, extension>>, get_fov_sort_key(path, extension))

\* the host calls the nuclei reader on the root folder
CallNucleiReader ==
    /\ pc = "idle"
    /\ \E disk \in Disks, env \in NucleiReaderEnvs :
        Call("nuclei_reader", <<NucleiRoot, disk, env>>,
             nuclei_reader(NucleiRoot, disk, env))

\* a call ends; the caller of get_reader keeps the reader it was handed
ReturnToCaller ==
    /\ pc = "done"
    /\ pc' = "idle"
    /\ args' = <<>>
    /\ IF op = "get_reader" /\ ~ result.value.is_none
       THEN op' = "reader held" /\ result' = result
       ELSE op' = "none" /\ result' = Return_("None")

Next ==
    \/ CallParseSimpleRecord
    \/ CallReaderParseSimpleRecord
    \/ CallExpandAlongZ
    \/ CallGetReader
    \/ CallParsePassed
    \/ CallParseFailed
    \/ CallImagePoint3D
    \/ CallReader
    \/ CallDetermineNucleiChannel
    \/ CallNucleiVisualisationData
    \/ CallGetFovSortKey
    \/ CallNucleiReader
    \/ ReturnToCaller

Spec == Init /\ [][Next]_vars

(***************************************************************************)
(* Properties of expand_along_z                                            *)
(***************************************************************************)
\* the state records a call of expand_along_z with a numeric z_max
ExpandCalled == op = "expand_along_z" /\ IsNumeric(args[2])

\* floor of the z of the record handed to expand_along_z
ArgZFloor == floor(get_z_coordinate(args[1]))

\* exactly one flag is true and it sits at Python index i
OnlyFlagAt(flags, i) ==
    /\ i + 1 \in 1..Len(flags)
    /\ \A k \in 1..Len(flags) : flags[k] <=> (k = i + 1)

\* C1 as stated: for 0 <= floor(r.z) <= z_max the call returns z_max + 1
\* points and z_max + 1 flags, the only true flag at index floor(r.z)
C1_AsStated ==
    (ExpandCalled /\ 0 <= ArgZFloor /\ ArgZFloor * 10 <= Tenths(args[2]))
        => /\ IsReturn(result)
           /\ Len(result.value.points) * 10 = Tenths(args[2]) + 10
           /\ Len(result.value.flags) * 10 = Tenths(args[2]) + 10
           /\ OnlyFlagAt(result.value.flags, ArgZFloor)

\* C1 amended: for 0 <= floor(r.z) <= z_max the call returns floor(z_max) + 1
\* points and as many flags (z_max + 1 when z_max is whole), the only true
\* flag at index floor(r.z)
C1_ExpandLengthAndCenter ==
    (ExpandCalled /\ 0 <= ArgZFloor /\ ArgZFloor * 10 <= Tenths(args[2]))
        => /\ IsReturn(result)
           /\ Len(result.value.points) = floor(args[2]) + 1
           /\ Len(result.value.flags) = floor(args[2]) + 1
           /\ OnlyFlagAt(result.value.flags, ArgZFloor)

\* a record at z = 1.5 expanded up to z_max = 3.5: four points, center third
C1_Witness ==
    /\ ExpandCalled
    /\ get_z_coordinate(args[1]) = PyFloatVal(15)
    /\ args[2] = PyFloatVal(35)
    /\ IsReturn(result)
    /\ Len(result.value.points) = 4
    /\ result.value.flags = <<FALSE, TRUE, FALSE, FALSE>>

\* C2: in every returned expansion the i-th point has z = i, the z values
\* are the integers of [0, z_max] each once, and trace id, timepoint, y and
\* x are those of the input record
C2_ExpandPoints ==
    (op = "expand_along_z" /\ IsReturn(result))
        => LET pts == result.value.points IN
           /\ \A k \in 1..Len(pts) :
                /\ NumEq(get_z_coordinate(pts[k]), PyIntVal(k - 1))
                /\ pts[k].trace_id = args[1].trace_id
                /\ pts[k].timepoint = args[1].timepoint
                /\ get_y_coordinate(pts[k]) = get_y_coordinate(args[1])
                /\ get_x_coordinate(pts[k]) = get_x_coordinate(args[1])
           /\ \A k \in 1..(Len(pts) - 1) :
                NumLt(get_z_coordinate(pts[k]), get_z_coordinate(pts[k + 1]))
           /\ { floor(get_z_coordinate(pts[k])) : k \in 1..Len(pts) }
                = { i \in 0..(MaxZ + 1) : i * 10 <= Tenths(args[2]) }

\* a record with y # x expanded into at least three points
C2_Witness ==
    /\ op = "expand_along_z"
    /\ IsReturn(result)
    /\ Len(result.value.points) >= 3
    /\ get_y_coordinate(args[1]) # get_x_coordinate(args[1])
    /\ get_z_coordinate(args[1]).t = "float"

\* C3 as stated: with z_max equal to floor(r.z) the output has length 1 and
\* its single entry is flagged true (read over the records of the data
\* model, whose coordinates are nonnegative)
C3_AsStated ==
    (ExpandCalled /\ 0 <= ArgZFloor /\ Tenths(args[2]) = ArgZFloor * 10)
        => /\ IsReturn(result)
           /\ Len(result.value.points) = 1
           /\ result.value.flags = <<TRUE>>

\* C3 amended: with z_max equal to floor(r.z) >= 0 the output has
\* floor(r.z) + 1 entries of which only the last is flagged true, so it has
\* length 1 exactly when floor(r.z) = 0; with floor(r.z) < 0 the call stops
\* at its length assertion
C3_ExpandAtCenter ==
    (ExpandCalled /\ Tenths(args[2]) = ArgZFloor * 10)
        => IF ArgZFloor >= 0
           THEN /\ IsReturn(result)
                /\ Len(result.value.points) = ArgZFloor + 1
                /\ Len(result.value.flags) = ArgZFloor + 1
                /\ OnlyFlagAt(result.value.flags, ArgZFloor)
                /\ (Len(result.value.points) = 1 <=> ArgZFloor = 0)
           ELSE Raises(result, "AssertionError", "len(points)")

\* a record at z = 2.5 expanded with z_max = 2: three points, the last true
C3_Witness ==
    /\ ExpandCalled
    /\ get_z_coordinate(args[1]) = PyFloatVal(25)
    /\ args[2] = PyIntVal(2)
    /\ IsReturn(result)
    /\ result.value.flags = <<FALSE, FALSE, TRUE>>

\* C4: with a numeric z_max below floor(r.z) the call raises the range
\* ValueError and returns nothing
C4_ExpandBelowCenterFails ==
    (ExpandCalled /\ Tenths(args[2]) < ArgZFloor * 10)
        => Raises(result, "ValueError", "z range")

\* a record at z = 2.5 with z_max = 1.5 is refused
C4_Witness ==
    /\ ExpandCalled
    /\ get_z_coordinate(args[1]) = PyFloatVal(25)
    /\ args[2] = PyFloatVal(15)
    /\ Raises(result, "ValueError", "z range")

(***************************************************************************)
(* Properties of the point constructor and the record parser               *)
(***************************************************************************)
\* the row of a parse_simple_record call has the expected number of fields
\* and field i converts to a float
FieldIsFloat(i) ==
    /\ op = "parse_simple_record"
    /\ Len(args[1]) = args[2]
    /\ IsReturn(PyFloat(args[1][i]))

\* C5: ImagePoint3D refuses every negative coordinate, and a row whose z
\* field parses to a negative number yields no PointRecord
C5_NegativeCoordinateRefused ==
    /\ (op = "ImagePoint3D" /\ \E i \in 1..3 : IsNumeric(args[i]) /\ Tenths(args[i]) < 0)
            => IsRaise(result)
    /\ (FieldIsFloat(3) /\ PyFloat(args[1][3]).value.v < 0)
            => IsRaise(result)

\* text of a nonnegative integer, text of a nonnegative float
IsNonNegIntText(s) == IsReturn(PyInt(s)) /\ PyInt(s).value.v >= 0

IsNonNegFloatText(s) == IsReturn(PyFloat(s)) /\ PyFloat(s).value.v >= 0

\* C6: a 5-field row of nonnegative integer texts (fields 0, 1) and
\* nonnegative float texts (fields 2, 3, 4) parses to a record whose
\* flatten() is [int(f0), int(f1), float(f2), float(f3), float(f4)]
C6_ParseRoundTrip ==
    (/\ op = "parse_simple_record"
     /\ args[2] = 5
     /\ Len(args[1]) = 5
     /\ IsNonNegIntText(args[1][1])
     /\ IsNonNegIntText(args[1][2])
     /\ \A i \in 3..5 : IsNonNegFloatText(args[1][i]))
        => /\ IsReturn(result)
           /\ flatten(result.value)
                = << PyInt(args[1][1]).value, PyInt(args[1][2]).value,
                     PyFloat(args[1][3]).value, PyFloat(args[1][4]).value,
                     PyFloat(args[1][5]).value >>

\* the row 3, 0, 2.7, 0, 3 parsed: five different positions told apart
C6_Witness ==
    /\ op = "parse_simple_record"
    /\ args = << << <<"3">>, <<"0">>, <<"2", ".", "7">>, <<"0">>, <<"3">> >>, 5 >>
    /\ IsReturn(result)
    /\ flatten(result.value)
         = << PyIntVal(3), PyIntVal(0), PyFloatVal(27), PyFloatVal(0), PyFloatVal(30) >>

\* C7: a row whose length differs from the expected field count is refused
\* with the length ValueError by both record parsers, whatever its fields
C7_LengthMismatchFails ==
    (/\ op \in {"parse_simple_record", "reader.parse_simple_record"}
     /\ Len(args[1]) # args[2])
        => Raises(result, "ValueError", "length")

\* a row too long for 5 fields whose first field is no number
C7_Witness ==
    /\ op = "parse_simple_record"
    /\ args[2] = 5
    /\ Len(args[1]) = 6
    /\ args[1][1] = <<"x">>
    /\ Raises(result, "ValueError", "length")

(***************************************************************************)
(* Properties of parse_failed                                              *)
(***************************************************************************)
\* the row is a well-formed fail row: 6 fields that parse
GoodFailRow(row) == Len(row) = 6 /\ IsReturn(parse_simple_record(row, 6))

\* parse_failed was called and the first row of the file that is not a
\* well-formed fail row is at position k
FirstBadFailRow(k) ==
    /\ op = "parse_failed"
    /\ k \in 1..Len(args[1])
    /\ ~ GoodFailRow(args[1][k])
    /\ \A j \in 1..(k - 1) : GoodFailRow(args[1][j])

\* C8 as stated: in parse_failed a row with fewer or more than 6 elements
\* fails with the length ValueError of the record parser
C8_AsStated ==
    \A k \in 1..MaxRows :
        (FirstBadFailRow(k) /\ Len(args[1][k]) # 6)
            => Raises(result, "ValueError", "length")

\* C8 amended: in parse_failed a row with more than 6 elements fails with
\* the length ValueError of the record parser, and a row with fewer than 6
\* fails with the IndexError of reading its reason code, which is logged and
\* raised again before the record parser sees the row
C8_FailRowLength ==
    \A k \in 1..MaxRows :
        /\ (FirstBadFailRow(k) /\ Len(args[1][k]) > 6)
                => Raises(result, "ValueError", "length")
        /\ (FirstBadFailRow(k) /\ Len(args[1][k]) < 6)
                => Raises(result, "IndexError", "list index")

\* a file whose first row has 7 fields, and the length error it gets
C8_Witness ==
    /\ FirstBadFailRow(1)
    /\ Len(args[1][1]) = 7
    /\ Raises(result, "ValueError", "length")

\* a file whose first bad row has 3 fields, and the IndexError it gets
C8_WitnessShort ==
    /\ \E k \in 1..MaxRows : FirstBadFailRow(k) /\ Len(args[1][k]) = 3
    /\ Raises(result, "IndexError", "list index")

(***************************************************************************)
(* Properties of get_reader                                                *)
(***************************************************************************)
\* get_reader was called on a string naming an existing .csv file
CsvFileGiven ==
    /\ op = "get_reader"
    /\ args[1].is_path_like
    /\ args[1].is_file
    /\ Len(args[1].text) >= 4
    /\ SubSeq(args[1].text, Len(args[1].text) - 3, Len(args[1].text))
         = <<".", "c", "s", "v">>

\* the last dot-delimited segment of the base name of the path, lower-cased
ArgSegment ==
    LET name == basename(args[1].text) IN
    lower(last_segment(SubSeq(name, 1, Len(name) - 4)))

\* the segment is one of the names, after an optional "qc" or "qc_" prefix
NamedBy(seg, names) ==
    \E prefix \in { <<>>, <<"q", "c">>, <<"q", "c", "_">> } :
        \E n \in names : seg = prefix \o n

\* C9: for an existing .csv file whose last segment is pass/passed or
\* fail/failed in any letter case, with or without a "qc" or "qc_" prefix,
\* get_reader returns a reader, with the Pass parser or the Fail parser
C9_RecognizedStatus ==
    /\ (CsvFileGiven /\ NamedBy(ArgSegment, PassNames))
            => /\ IsReturn(result)
               /\ ~ result.value.is_none
               /\ result.value.read_rows = "parse_passed"
    /\ (CsvFileGiven /\ NamedBy(ArgSegment, FailNames))
            => /\ IsReturn(result)
               /\ ~ result.value.is_none
               /\ result.value.read_rows = "parse_failed"

\* s.QC_PASS.csv, an existing file, gets the Pass reader
C9_Witness ==
    /\ CsvFileGiven
    /\ args[1].text = <<"s", ".", "Q", "C", "_", "P", "A", "S", "S", ".", "c", "s", "v">>
    /\ result.value = Reader("parse_passed", "GOLDENROD")

\* C10: get_reader never raises, and returns None for a non-path argument,
\* for a path that is no file, for an extension other than .csv and for a
\* last segment that is none of pass, passed, fail, failed after lower-casing
\* and removal of at most one "qc" or "qc_" prefix
C10_DeclinedOtherwise ==
    op = "get_reader"
        => /\ IsReturn(result)
           /\ (~ args[1].is_path_like \/ ~ args[1].is_file) => result.value.is_none
           /\ (args[1].is_path_like /\ splitext(basename(args[1].text))[2] # <<".", "c", "s", "v">>)
                    => result.value.is_none
           /\ (CsvFileGiven /\ ~ NamedBy(ArgSegment, PassNames \cup FailNames))
                    => result.value.is_none

(***************************************************************************)
(* Properties of the file parsers and of the parser built by get_reader    *)
(***************************************************************************)
\* the rows handed to the file parser of the state, and the field count it
\* expects of each: 5 in a pass-file, 6 in a fail-file
FileParsed == op \in {"parse_passed", "parse_failed", "reader"}

FileRowsArg == IF op = "reader" THEN args[2] ELSE args[1]

PassFile ==
    \/ op = "parse_passed"
    \/ op = "reader" /\ args[1].read_rows = "parse_passed"

FailFile == FileParsed /\ ~ PassFile

FileFieldCount == IF PassFile THEN 5 ELSE 6

\* wrong field count, or a field that does not convert to int or float
Malformed(row, n) ==
    \/ Len(row) # n
    \/ \E i \in 1..2 : IsRaise(PyInt(row[i]))
    \/ \E i \in 3..5 : IsRaise(PyFloat(row[i]))

\* a row of the input file contract: n fields, nonnegative integers for
\* trace and timepoint and nonnegative floats for z, y, x
WellFormed(row, n) ==
    /\ Len(row) = n
    /\ \A i \in 1..2 : IsNonNegIntText(row[i])
    /\ \A i \in 3..5 : IsNonNegFloatText(row[i])

AllWellFormed(rows, n) == \A k \in 1..Len(rows) : WellFormed(rows[k], n)

\* floor of the greatest z among well-formed rows, and the number of points
\* each of them expands to
FileMaxFloor(rows) ==
    CHOOSE f \in { floor(PyFloat(rows[k][3]).value) : k \in 1..Len(rows) } :
        \A k \in 1..Len(rows) : floor(PyFloat(rows[k][3]).value) <= f

PerRow(rows) == FileMaxFloor(rows) + 1

\* the row the i-th point of the output comes from, and its slice
SourceRow(rows, i) == ((i - 1) \div PerRow(rows)) + 1

SliceOf(rows, i) == (i - 1) % PerRow(rows)

\* C11: a malformed row anywhere in a pass-file or a fail-file makes the
\* whole parse raise: no layer tuple, no points of the other rows
C11_MalformedRowIsFatal ==
    (FileParsed /\ \E k \in 1..Len(FileRowsArg) : Malformed(FileRowsArg[k], FileFieldCount))
        => IsRaise(result)

\* a pass-file read through the reader: a well-formed row, then a row whose
\* z is no number
C11_Witness ==
    /\ op = "reader"
    /\ PassFile
    /\ Len(args[2]) = 2
    /\ WellFormed(args[2][1], 5)
    /\ Len(args[2][2]) = 5
    /\ IsRaise(PyFloat(args[2][2][3]))
    /\ Raises(result, "ValueError", "float")

\* C12: for a fail-file of (one or more) well-formed 6-field rows
\* parse_failed returns one failCodes entry per point, and entry i is the
\* sixth field of the row point i was expanded from
C12_FailCodesAligned ==
    (op = "parse_failed" /\ Len(args[1]) >= 1 /\ AllWellFormed(args[1], 6))
        => /\ IsReturn(result)
           /\ LET codes == result.value.params.properties.failCodes
                  points == result.value.points
              IN
              /\ Len(codes) = Len(points)
              /\ Len(points) = Len(args[1]) * PerRow(args[1])
              /\ \A i \in 1..Len(points) :
                    /\ codes[i] = args[1][SourceRow(args[1], i)][6]
                    /\ points[i].trace_id.get
                         = PyInt(args[1][SourceRow(args[1], i)][1]).value

\* two rows with different codes and three slices each
C12_Witness ==
    /\ op = "parse_failed"
    /\ Len(args[1]) = 2
    /\ AllWellFormed(args[1], 6)
    /\ args[1][1][6] # args[1][2][6]
    /\ IsReturn(result)
    /\ result.value.params.properties.failCodes
         = << args[1][1][6], args[1][1][6], args[1][1][6],
              args[1][2][6], args[1][2][6], args[1][2][6] >>

\* the layer tuple a reader call returned
Layer == result.value[1]

PassLayerReturned == op = "reader" /\ PassFile /\ IsReturn(result)

\* C14 as stated: the pass layer has one color/symbol pair for all points,
\* one size for all points, and neither properties nor text
C14_AsStated ==
    PassLayerReturned
        => /\ Layer.params.edge_color = Layer.params.face_color
           /\ \A i, j \in 1..Len(Layer.data) :
                /\ Layer.params.symbol[i] = Layer.params.symbol[j]
                /\ Layer.params.size[i] = Layer.params.size[j]
           /\ "properties" \notin DOMAIN Layer.params
           /\ "text" \notin DOMAIN Layer.params

\* C14 amended: the pass layer has one color for all points, edge and face,
\* and neither properties nor text; symbol and size are per point, the pair
\* "*", 1.5 or the pair "o", 1.0
C14_PassStyling ==
    PassLayerReturned
        => /\ Layer.params.edge_color = "GOLDENROD"
           /\ Layer.params.face_color = "GOLDENROD"
           /\ DOMAIN Layer.params
                = { "edge_width", "edge_width_is_relative", "n_dimensional",
                    "edge_color", "face_color", "size", "symbol" }
           /\ \A i \in 1..Len(Layer.data) :
                \/ Layer.params.symbol[i] = "*" /\ Layer.params.size[i] = PyFloatVal(15)
                \/ Layer.params.symbol[i] = "o" /\ Layer.params.size[i] = PyFloatVal(10)

\* a pass layer with both pairs in it
C14_Witness ==
    /\ PassLayerReturned
    /\ \E i, j \in 1..Len(Layer.data) :
        /\ Layer.params.symbol[i] = "*" /\ Layer.params.size[i] = PyFloatVal(15)
        /\ Layer.params.symbol[j] = "o" /\ Layer.params.size[j] = PyFloatVal(10)

\* point i of the layer is the center of its source record: its z is the
\* floor of the z of the row it comes from
IsTrueCenter(i) ==
    NumEq(Layer.data[i][3],
          PyIntVal(floor(PyFloat(FileRowsArg[SourceRow(FileRowsArg, i)][3]).value)))

\* C15: in a returned layer points and symbols have one length, in a pass
\* layer the sizes too; the symbol is "*" exactly at the true centers and
\* "o" elsewhere, and the pass size 1.5 exactly there and 1.0 elsewhere
C15_SymbolsAndSizesAligned ==
    (op = "reader" /\ IsReturn(result))
        => /\ Len(Layer.params.symbol) = Len(Layer.data)
           /\ PassFile => Len(Layer.params.size) = Len(Layer.data)
           /\ \A i \in 1..Len(Layer.data) :
                /\ Layer.params.symbol[i] = (IF IsTrueCenter(i) THEN "*" ELSE "o")
                /\ PassFile =>
                     Layer.params.size[i]
                        = (IF IsTrueCenter(i) THEN PyFloatVal(15) ELSE PyFloatVal(10))

\* a pass layer of two rows with centers at slices 2 and 0
C15_Witness ==
    /\ PassLayerReturned
    /\ Len(args[2]) = 2
    /\ Layer.params.symbol = <<"o", "o", "*", "*", "o", "o">>
    /\ Layer.params.size[3] = PyFloatVal(15)
    /\ Layer.params.size[5] = PyFloatVal(10)

\* the points a file parser returned
ParsedPoints == IF op = "reader" THEN Layer.data ELSE result.value.points

\* C16: no file parse raises the z range error, and a file of n >= 1
\* well-formed rows gives n * (floor(max z) + 1) points, those of row j
\* together in input order, one for each slice 0..floor(max z)
C16_FileExpansion ==
    /\ FileParsed => ~ Raises(result, "ValueError", "z range")
    /\ (/\ op \in {"parse_passed", "parse_failed"}
        /\ Len(args[1]) >= 1
        /\ AllWellFormed(args[1], FileFieldCount))
            => /\ IsReturn(result)
               /\ Len(result.value.points) = Len(args[1]) * PerRow(args[1])
               /\ \A i \in 1..Len(result.value.points) :
                    LET row == args[1][SourceRow(args[1], i)] IN
                    flatten(result.value.points[i])
                        = << PyInt(row[1]).value, PyInt(row[2]).value,
                             PyIntVal(SliceOf(args[1], i)),
                             PyFloat(row[4]).value, PyFloat(row[5]).value >>

\* a pass-file with z = 0 before z = 2.7: three points for each row
C16_Witness ==
    /\ op = "parse_passed"
    /\ Len(args[1]) = 2
    /\ AllWellFormed(args[1], 5)
    /\ args[1][1][1] # args[1][2][1]
    /\ args[1][1][3] = <<"0">>
    /\ args[1][2][3] = <<"2", ".", "7">>
    /\ IsReturn(result)
    /\ Len(result.value.points) = 6

\* C17: no record the parser returned, expanded with a z_max the range check
\* accepts, stops expand_along_z or a file parse with an AssertionError
C17_NoAssertionError ==
    (\/ FileParsed
     \/ op = "expand_along_z" /\ get_z_coordinate(args[1]).t = "float")
        => ~ (IsRaise(result) /\ result.exc = "AssertionError")

\* C18: the reader called on a file without rows returns one points layer
\* with no points and empty per-point lists, and logs the warning
C18_EmptyFileGivesEmptyLayer ==
    (op = "reader" /\ args[2] = <<>>)
        => /\ IsReturn(result)
           /\ Len(result.value) = 1
           /\ Layer.data = <<>>
           /\ Layer.params.symbol = <<>>
           /\ Layer.layer_type = "points"
           /\ Layer.warnings = <<"No data rows parsed!">>

(***************************************************************************)
(* Properties of the nuclei reader                                         *)
(***************************************************************************)
\* the state records a construction of NucleiVisualisationData
Constructed == op = "NucleiVisualisationData"

\* the channel variable holds the text of an integer c, 0 <= c < channels
ChannelInRange(env, channels) ==
    /\ IsIntText(env)
    /\ 0 <= PyInt(env).value.v
    /\ PyInt(env).value.v < channels

\* the image drawn for the construction has a channel axis longer than 1,
\* after a first axis of length 1 if it is 5D
ChannelAxis ==
    IF Len(args[1].shape) = 4 THEN 1
    ELSE IF Len(args[1].shape) = 5 /\ args[1].shape[1] = 1 THEN 2
    ELSE 0

MultiChannel == ChannelAxis # 0 /\ args[1].shape[ChannelAxis] > 1

\* C13: with a multi-channel nuclei image (two channels here) and the channel
\* variable holding the text of an integer c, 0 <= c < number of channels,
\* determine_nuclei_channel returns c, and the construction of
\* NucleiVisualisationData succeeds with channel c of the image as its image
C13_ChannelFromEnvironment ==
    /\ (op = "determine_nuclei_channel" /\ ChannelInRange(args[1], 2))
        => (IsReturn(result) /\ result.value = PyInt(args[1]).value)
    /\ (Constructed /\ MultiChannel /\ IsReturn(reduced_masks(args[2]))
            /\ ChannelInRange(args[4], args[1].shape[ChannelAxis]))
        => /\ IsReturn(result)
           /\ \E k \in 1..Len(result.value.image.view) :
                result.value.image.view[k] =
                    [step |-> "item", i |-> PyInt(args[4]).value.v]

\* C19: a construction of NucleiVisualisationData that succeeds holds a 2D
\* image and 2D masks, whatever the dimensions of the arrays it was given;
\* any other construction raised
C19_ReducedTo2D ==
    Constructed =>
        \/ IsRaise(result)
        \/ /\ IsReturn(result)
           /\ Len(result.value.image.shape) = 2
           /\ Len(result.value.masks.shape) = 2
           /\ result.value.image.shape
                = SubSeq(args[1].shape, Len(args[1].shape) - 1, Len(args[1].shape))
           /\ result.value.masks.shape
                = SubSeq(args[2].shape, Len(args[2].shape) - 1, Len(args[2].shape))

\* a 5D image with a z axis to project and 5D masks were reduced
C19_Witness ==
    /\ Constructed
    /\ IsReturn(result)
    /\ Len(args[1].shape) = 5
    /\ args[1].shape[3] = 2
    /\ Len(args[2].shape) = 5
    /\ result.value.image.view[Len(result.value.image.view)].step = "max"

\* the state records a call of the nuclei reader that returned its layers
NucleiLayersReturned == op = "nuclei_reader" /\ IsReturn(result)

\* the names of a listing that hold field of view f
NamesOf(names, extension, f) ==
    { k \in 1..Len(names) :
        get_fov_sort_key([is_path_like |-> TRUE, text |-> names[k]], extension)
            = Return_([t |-> "FieldOfViewFrom1", v |-> f]) }

\* the fields of view with a file in all three subfolders of the disk read
CommonFovs ==
    { f \in 1..9 :
        /\ NamesOf(args[2].images, zarr, f) # {}
        /\ NamesOf(args[2].masks, zarr, f) # {}
        /\ NamesOf(args[2].centers, nuclear_masks_csv, f) # {} }

\* the index (from 0) of field of view f among the common ones
Rank(f) == Cardinality({ g \in CommonFovs : g < f })

\* the path of the file of field of view f in a subfolder
PathOf(subfolder, names, extension, f) ==
    relpath(names[CHOOSE k \in NamesOf(names, extension, f) : TRUE],
            relpath(subfolder, args[1]))

\* the positions of the points layer that carry index i
PositionsOf(i) ==
    { k \in 1..Len(result.value[3].data) : result.value[3].data[k][1] = PyIntVal(i) }

\* C20: the layers the nuclei reader returns stack exactly the fields of
\* view with a file in all three subfolders; entry k of the image stack and
\* of the masks stack comes from the files of the k-th smallest of them, and
\* the centroids of that field of view, and no others, carry k as first
\* coordinate, each with its nucleus number at the same position of the
\* "nucleus" property
C20_OneIndexPerFieldOfView ==
    NucleiLayersReturned =>
        /\ Len(result.value[1].data.stacked) = Cardinality(CommonFovs)
        /\ Len(result.value[2].data.stacked) = Cardinality(CommonFovs)
        /\ Len(result.value[3].params.properties.nucleus) = Len(result.value[3].data)
        /\ \A k \in 1..Len(result.value[3].data) :
            result.value[3].data[k][1].v \in 0..(Cardinality(CommonFovs) - 1)
        /\ \A f \in CommonFovs :
            /\ result.value[1].data.stacked[Rank(f) + 1].file
                = PathOf(IMAGES, args[2].images, zarr, f)
            /\ result.value[2].data.stacked[Rank(f) + 1].file
                = PathOf(MASKS, args[2].masks, zarr, f)
            /\ LET rows == csv_rows(PathOf(CENTERS, args[2].centers, nuclear_masks_csv, f))
               IN
               /\ Cardinality(PositionsOf(Rank(f))) = Len(rows)
               /\ \A j \in 1..Len(rows) : \E k \in PositionsOf(Rank(f)) :
                    /\ result.value[3].data[k]
                        = <<PyIntVal(Rank(f)), rows[j].yc, rows[j].xc>>
                    /\ result.value[3].params.properties.nucleus[k] = rows[j].label

\* two fields of view were read from folders that list the larger one first
C20_Witness ==
    /\ NucleiLayersReturned
    /\ Cardinality(CommonFovs) = 2
    /\ Len(args[2].images) = 2
    /\ NamesOf(args[2].images, zarr, 2) = {1}
    /\ NamesOf(args[2].centers, nuclear_masks_csv, 2) = {1}
    /\ Len(result.value[3].data) = 3

====
